---- MODULE Spec2Model ----
(***************************************************************************)
(* Model of the connection core of Python/unreal_mcp_server.py:            *)
(*   - the newline-delimited JSON receive path (receive_full_response),    *)
(*   - the error normalisation done by send_command,                       *)
(*   - the UnrealConnection session (connect / disconnect / send_command,  *)
(*     the heartbeat thread) with its threading.Lock,                      *)
(*   - the process-wide handle get_unreal_connection.                      *)
(*                                                                         *)
(* Wire abstraction.  A byte is one of the strings in Bytes.  The ASCII    *)
(* bytes "{" "}" NL SP are themselves; every other ASCII byte stands for   *)
(* one whole member of a JSON object (MemberKey / MemberVal), "7" is the   *)
(* JSON number 7, and the two bytes C3 A9 are the UTF-8 encoding of the    *)
(* single character E9 (e acute), which stands for one member "actor".  *)
(***************************************************************************)
EXTENDS Integers, Sequences, FiniteSets, TLC

(* ------------------------------ bounds -------------------------------- *)
MaxSessions == 2      \* UnrealConnection objects ever constructed
MaxSock == 2          \* socket descriptors a session can have at one time
MaxHeartbeats == 2    \* heartbeat frames sent before the last line of a reply
MaxReads == 16        \* recv calls counted on one reply
MaxCommands == 2      \* tracked commands a caller issues

(* --------------------------- program constants ------------------------ *)
HeartbeatInterval == 25

NL == "NL"
SP == "SP"
Whitespace == {NL, SP}
MemberToks == {"h", "s", "e", "f", "x", "o", "m", "E9"}
PyNone == "<None>"
DefaultError == "Unknown Unreal error"
ErrClosed == "Connection closed before receiving a valid response"
ErrTimeout == "Timeout receiving Unreal response"
ErrDecode == "'utf-8' codec can't decode byte"
ErrAttr == "object has no attribute 'get'"
ErrIO == "socket send failed"

MemberKey(c) ==
  CASE c = "h" -> "type"
    [] c = "s" -> "status"
    [] c = "e" -> "status"
    [] c = "f" -> "success"
    [] c = "x" -> "error"
    [] c = "o" -> "error"
    [] c = "m" -> "message"
    [] c = "E9" -> "actor"

MemberVal(c) ==
  CASE c = "h" -> "heartbeat"
    [] c = "s" -> "success"
    [] c = "e" -> "error"
    [] c = "f" -> "false"
    [] c = "x" -> "X"
    [] c = "o" -> ""
    [] c = "m" -> "M"
    [] c = "E9" -> "E9"

EmptyDict == [k \in {} |-> ""]
NoMessage == [isdict |-> FALSE, d |-> EmptyDict]

(* ----------------------- bytes.decode('utf-8') ------------------------ *)
RECURSIVE Utf8Decode(_)
Utf8Decode(b) ==
  IF b = <<>> THEN [ok |-> TRUE, text |-> <<>>]
  ELSE IF Head(b) = "C3"
    THEN IF Len(b) >= 2 /\ b[2] = "A9"
           THEN LET r == Utf8Decode(SubSeq(b, 3, Len(b)))
                IN [ok |-> r.ok, text |-> <<"E9">> \o r.text]
           ELSE [ok |-> FALSE, text |-> <<>>]
  ELSE IF Head(b) = "A9"
    THEN [ok |-> FALSE, text |-> <<>>]
  ELSE LET r == Utf8Decode(Tail(b))
       IN [ok |-> r.ok, text |-> <<Head(b)>> \o r.text]

(* ------------------------------ str.strip ----------------------------- *)
RECURSIVE LStrip(_)
LStrip(t) ==
  IF t # <<>> /\ Head(t) \in Whitespace THEN LStrip(Tail(t)) ELSE t

RECURSIVE RStrip(_)
RStrip(t) ==
  IF t # <<>> /\ t[Len(t)] \in Whitespace
    THEN RStrip(SubSeq(t, 1, Len(t) - 1)) ELSE t

Strip(t) == RStrip(LStrip(t))

(* ------------------------------ json.loads ---------------------------- *)
RECURSIVE BuildDict(_, _)
BuildDict(toks, d) ==
  IF toks = <<>> THEN d
  ELSE LET c == Head(toks)
           k == MemberKey(c)
           d2 == [j \in (DOMAIN d) \cup {k} |-> IF j = k THEN MemberVal(c) ELSE d[j]]
       IN BuildDict(Tail(toks), d2)

JsonLoads(text) ==
  LET l == Strip(text)
      n == Len(l)
  IN IF l = <<"7">>
       THEN [ok |-> TRUE, msg |-> [isdict |-> FALSE, d |-> EmptyDict]]
     ELSE IF n >= 2 /\ l[1] = "{" /\ l[n] = "}"
             /\ \A i \in 2..(n - 1) : l[i] \in MemberToks \cup Whitespace
       THEN [ok |-> TRUE,
             msg |-> [isdict |-> TRUE,
                      d |-> BuildDict(SelectSeq(SubSeq(l, 2, n - 1),
                                                LAMBDA c : c \in MemberToks),
                                      EmptyDict)]]
     ELSE [ok |-> FALSE, msg |-> NoMessage]

DictGet(d, k, default) == IF k \in DOMAIN d THEN d[k] ELSE default

IsHeartbeat(m) == m.isdict /\ DictGet(m.d, "type", PyNone) = "heartbeat"

(* --------------- receive_full_response: the inner while loop ---------- *)
FirstNewline(buf) == CHOOSE i \in 1..Len(buf) :
                        buf[i] = NL /\ \A j \in 1..(i - 1) : buf[j] # NL

HasNewline(buf) == \E i \in 1..Len(buf) : buf[i] = NL

\* Result of draining the buffer: either a message is returned, or the loop
\* ends (no newline left, or an unparseable line was pushed back).
RECURSIVE ProcessBuffer(_)
ProcessBuffer(buffer) ==
  IF ~HasNewline(buffer)
    THEN [returned |-> FALSE, msg |-> NoMessage, buffer |-> buffer]
  ELSE LET i == FirstNewline(buffer)
           raw_message == Strip(SubSeq(buffer, 1, i - 1))
           rest == SubSeq(buffer, i + 1, Len(buffer))
           p == JsonLoads(raw_message)
       IN IF raw_message = <<>> THEN ProcessBuffer(rest)
          ELSE IF ~p.ok
            THEN [returned |-> FALSE, msg |-> NoMessage,
                  buffer |-> raw_message \o (IF rest # <<>> THEN <<NL>> \o rest ELSE <<>>)]
          ELSE IF IsHeartbeat(p.msg) THEN ProcessBuffer(rest)
          ELSE [returned |-> TRUE, msg |-> p.msg, buffer |-> rest]

\* Outcome of receive_full_response: a returned message or a raised exception.
Returned(m) == [kind |-> "msg", msg |-> m, err |-> ""]
Raised(e) == [kind |-> "exc", msg |-> NoMessage, err |-> e]
Pending == [kind |-> "none", msg |-> NoMessage, err |-> ""]

\* Lines 137-146: the stream ended (recv returned b"").
EndOfStream(buffer) ==
  IF Strip(buffer) # <<>> /\ JsonLoads(buffer).ok
    THEN Returned(JsonLoads(buffer).msg)
    ELSE Raised(ErrClosed)

\* Lines 147-156: socket.timeout while reading.
ReadTimeout(buffer) ==
  IF Strip(buffer) # <<>> /\ JsonLoads(buffer).ok
    THEN Returned(JsonLoads(buffer).msg)
    ELSE Raised(ErrTimeout)

\* Lines 108-135: one pass of the outer loop on a non-empty chunk.
\* Gives the new buffer and the outcome (Pending: go on reading).
OnChunk(buffer, chunk) ==
  LET dec == Utf8Decode(chunk)
  IN IF ~dec.ok THEN [buffer |-> buffer, out |-> Raised(ErrDecode)]
     ELSE LET r == ProcessBuffer(buffer \o dec.text)
          IN [buffer |-> r.buffer,
              out |-> IF r.returned THEN Returned(r.msg) ELSE Pending]

\* The whole of receive_full_response on a script: the chunks recv delivers
\* and then how the stream ends ("EOF" or "TIMEOUT").
RECURSIVE ReceiveLoop(_, _, _)
ReceiveLoop(buffer, chunks, end) ==
  IF chunks = <<>>
    THEN IF end = "EOF" THEN EndOfStream(buffer) ELSE ReadTimeout(buffer)
  ELSE LET r == OnChunk(buffer, Head(chunks))
       IN IF r.out.kind # "none" THEN r.out
          ELSE ReceiveLoop(r.buffer, Tail(chunks), end)

receive_full_response(script) == ReceiveLoop(<<>>, script.chunks, script.end)

(* ------------- send_command: what is returned for a read outcome ------ *)
Truthy(v) == v \notin {"", PyNone}

PyOr(a, b) == IF Truthy(a) THEN a ELSE b

\* Lines 196 and 205: response.get("error") or response.get("message", default)
ErrorMessage(response) ==
  PyOr(DictGet(response, "error", PyNone),
       DictGet(response, "message", DefaultError))

ErrorResponse(text) ==
  [k \in {"status", "error"} |-> IF k = "status" THEN "error" ELSE text]

\* Lines 195-215: the response dict handed back for a decoded dict.
NormalizeResponse(response) ==
  IF DictGet(response, "status", PyNone) = "error"
    THEN IF "error" \notin DOMAIN response
           THEN [k \in (DOMAIN response) \cup {"error"} |->
                   IF k = "error" THEN ErrorMessage(response) ELSE response[k]]
           ELSE response
  ELSE IF DictGet(response, "success", PyNone) = "false"
    THEN ErrorResponse(ErrorMessage(response))
  ELSE response

\* Whether the try block of send_command (lines 169-215) raises for this read
\* outcome: the read raised, or the message has no .get (not a dict).
ReadFaults(out) == out.kind = "exc" \/ ~out.msg.isdict

FaultText(out) == IF out.kind = "exc" THEN out.err ELSE ErrAttr

\* The value send_command returns once the command was written and the read
\* ended with outcome out.
ResponseFor(out) ==
  IF ReadFaults(out) THEN ErrorResponse(FaultText(out))
  ELSE NormalizeResponse(out.msg.d)

(* ----------------------------- reply streams -------------------------- *)
LineHB == <<"{", "h", "}">>
LineOK == <<"{", "s", "}">>
LineActor == <<"{", "s", "C3", "A9", "}">>
LinePretty == <<"{", NL, "s", "}">>
LineNumber == <<"7">>
LineGarbage == <<"{", "s">>
ShapeA == { <<"{", "e", "x", "}">>, <<"{", "e", "m", "}">>, <<"{", "e", "}">>,
            <<"{", "e", "o", "}">>, <<"{", "e", "o", "m", "}">>,
            <<"{", "e", "x", "m", "}">> }
ShapeB == { <<"{", "f", "x", "}">>, <<"{", "f", "m", "}">>, <<"{", "f", "}">>,
            <<"{", "f", "o", "}">>, <<"{", "f", "o", "m", "}">>,
            <<"{", "f", "x", "m", "}">> }
RealLines == {LineOK, LineActor, LinePretty} \cup ShapeA \cup ShapeB
Lines == RealLines \cup {LineHB, LineNumber, LineGarbage}

RECURSIVE Heartbeats(_)
Heartbeats(n) == IF n = 0 THEN <<>> ELSE LineHB \o <<NL>> \o Heartbeats(n - 1)

\* n heartbeat frames, then one line, newline-terminated or not.
Stream(n, line, term) ==
  Heartbeats(n) \o line \o (IF term THEN <<NL>> ELSE <<>>)

(* ======================= state of the program ========================= *)
VARIABLES
  unreal_connection,  \* the module global _unreal_connection (0: None)
  nsess,              \* UnrealConnection objects constructed so far
  connected,          \* [session -> BOOLEAN]           self.connected
  socket,             \* [session -> 0..MaxSock]        self.socket (0: None)
  sockOpen,           \* set of <<session, descriptor>> not yet closed
  lock,               \* [session -> thread or NoThread] holder of self.lock
  heartbeat_thread,   \* [session -> thread or NoThread] self.heartbeat_thread
  heartbeat_stop,     \* [session -> BOOLEAN]           self.heartbeat_stop
  pc,                 \* [thread -> position in the code]
  op,                 \* [thread -> the public operation it runs]
  cur,                \* [thread -> session the running method is bound to]
  held,               \* [caller -> session got from get_unreal_connection]
  result,             \* [thread -> value about to be returned]
  xsock,              \* [thread -> descriptor its command was written to]
  nwrites,            \* [thread -> sendall calls made by the running call]
  firstReturned,      \* first session get_unreal_connection returned (0: none yet)
  seen,               \* [caller in the handle -> firstReturned when its call began]
  peer,               \* behaviour of the Unreal side
  rstream, rbuf, rout, rn, rhb, rline, rterm, rresp,  \* receive path alone
  last_command,        \* self.last_command, as the number of the tracked
                       \* command it names (0: None)
  last_command_result, \* self.last_command_result, with the command it is of
  last_command_error,  \* self.last_command_error, with the command it is of
  last_heartbeat,      \* self.last_heartbeat
  ncmd,                \* tracked commands issued so far
  snap                 \* the mapping a running status() call is building

sessVars == <<unreal_connection, nsess, connected, socket, sockOpen, lock,
              heartbeat_thread, heartbeat_stop>>
thrVars == <<pc, op, cur, held, result, xsock, nwrites>>
ghostVars == <<firstReturned, seen>>
recvVars == <<rstream, rbuf, rout, rn, rhb, rline, rterm, rresp>>
diagVars == <<last_command, last_command_result, last_command_error,
              last_heartbeat, ncmd, snap>>
vars == <<sessVars, thrVars, ghostVars, peer, recvVars, diagVars>>

Sessions == 1..MaxSessions
Callers == {"c1", "c2"}
HBs == {"h1", "h2"}
Threads == Callers \cup HBs
NoThread == "nobody"
PeerModes == {"healthy", "down"}

RNothing == [kind |-> "nothing", d |-> EmptyDict]
RNone == [kind |-> "None", d |-> EmptyDict]
RResponse(d) == [kind |-> "response", d |-> d]

HomePc(t) == IF t \in Callers THEN "idle" ELSE "hb_wait"

\* threading.Thread.is_alive()
IsAlive(h) == h # NoThread /\ pc[h] # "dead"

\* The diagnostic fields as __init__ leaves them (lines 48-52); a result and
\* an error are kept with the number of the command they were recorded for.
NoResult == [of |-> 0, val |-> RNone]
NoError == [of |-> 0, val |-> PyNone]
NoSnap == [connected |-> FALSE, last_heartbeat |-> PyNone,
           last_command |-> 0, last_command_error |-> NoError,
           last_command_result |-> NoResult]

SessionInit ==
  /\ last_command = 0
  /\ last_command_result = NoResult
  /\ last_command_error = NoError
  /\ last_heartbeat = PyNone
  /\ ncmd = 0
  /\ snap = NoSnap
  /\ unreal_connection = 0
  /\ nsess = 0
  /\ connected = [s \in Sessions |-> FALSE]
  /\ socket = [s \in Sessions |-> 0]
  /\ sockOpen = {}
  /\ lock = [s \in Sessions |-> NoThread]
  /\ heartbeat_thread = [s \in Sessions |-> NoThread]
  /\ heartbeat_stop = [s \in Sessions |-> FALSE]
  /\ pc = [t \in Threads |-> IF t \in Callers THEN "idle" ELSE "dead"]
  /\ op = [t \in Threads |-> "none"]
  /\ cur = [t \in Threads |-> 0]
  /\ held = [t \in Callers |-> 0]
  /\ result = [t \in Threads |-> RNothing]
  /\ xsock = [t \in Threads |-> 0]
  /\ nwrites = [t \in Threads |-> 0]
  /\ firstReturned = 0
  /\ seen = [t \in Callers |-> 0]

RecvIdle ==
  /\ rstream = <<>>
  /\ rbuf = <<>>
  /\ rout = Pending
  /\ rn = 0
  /\ rhb = 0
  /\ rline = <<>>
  /\ rterm = FALSE
  /\ rresp = RNothing

(* ================= the receive path, one recv at a time =============== *)
BufferSize == 4096

InitRecv ==
  /\ SessionInit
  /\ peer = "healthy"
  /\ rhb \in 0..MaxHeartbeats
  /\ rline \in Lines
  /\ rterm \in BOOLEAN
  /\ rstream = Stream(rhb, rline, rterm)
  /\ rbuf = <<>>
  /\ rout = Pending
  /\ rn = 0
  /\ rresp = RNothing

\* sock.recv(buffer_size) delivers the next n bytes of the stream.
RecvChunk ==
  /\ rout.kind = "none"
  /\ rstream # <<>>
  /\ \E n \in 1..Len(rstream) :
       /\ n <= BufferSize
       /\ LET r == OnChunk(rbuf, SubSeq(rstream, 1, n))
          IN /\ rbuf' = r.buffer
             /\ rout' = r.out
       /\ rstream' = SubSeq(rstream, n + 1, Len(rstream))
  /\ rn' = IF rn < MaxReads THEN rn + 1 ELSE rn
  /\ UNCHANGED <<sessVars, thrVars, ghostVars, diagVars, peer, rhb, rline, rterm, rresp>>

\* The peer has sent everything and closes: recv returns b"".
RecvEOF ==
  /\ rout.kind = "none"
  /\ rstream = <<>>
  /\ rout' = EndOfStream(rbuf)
  /\ UNCHANGED <<sessVars, thrVars, ghostVars, diagVars, peer, rstream, rbuf, rn, rhb,
                 rline, rterm, rresp>>

\* The peer has sent everything and stays silent: recv raises socket.timeout.
RecvTimeout ==
  /\ rout.kind = "none"
  /\ rstream = <<>>
  /\ rout' = ReadTimeout(rbuf)
  /\ UNCHANGED <<sessVars, thrVars, ghostVars, diagVars, peer, rstream, rbuf, rn, rhb,
                 rline, rterm, rresp>>

\* send_command turns the read outcome into the value it returns.
RecvReturn ==
  /\ rout.kind # "none"
  /\ rresp.kind = "nothing"
  /\ rresp' = RResponse(ResponseFor(rout))
  /\ UNCHANGED <<sessVars, thrVars, ghostVars, diagVars, peer, rstream, rbuf, rout, rn,
                 rhb, rline, rterm>>

NextRecv == RecvChunk \/ RecvEOF \/ RecvTimeout \/ RecvReturn

SpecRecv == InitRecv /\ [][NextRecv]_vars

(* ===================== the session and its threads ==================== *)
\* What the peer can make recv deliver for one command in the session model.
OneChunk(stream, end) == [chunks |-> <<stream>>, end |-> end]

TwoChunks(stream, n, end) ==
  [chunks |-> <<SubSeq(stream, 1, n), SubSeq(stream, n + 1, Len(stream))>>,
   end |-> end]

\* A healthy peer accepts the connection, takes the command and replies
\* with a complete line (after a heartbeat frame, or reporting a failure of
\* its own); a peer that is down refuses connections, and on a connection it
\* had accepted the write fails or the read meets the end of the stream or
\* the timeout.
HealthyScripts ==
  { TwoChunks(Stream(1, LineOK, TRUE), 5, "TIMEOUT"),
    OneChunk(Stream(0, <<"{", "f", "m", "}">>, TRUE), "TIMEOUT"),
    OneChunk(Stream(0, <<"{", "e", "m", "}">>, TRUE), "TIMEOUT") }

BrokenScripts ==
  { [chunks |-> <<>>, end |-> "EOF"],
    [chunks |-> <<>>, end |-> "TIMEOUT"] }

\* Whether socket.connect() succeeds, and whether sendall() succeeds.
ConnectOutcomes(mode) == IF mode = "healthy" THEN {TRUE} ELSE {FALSE}

WriteOutcomes(mode) == IF mode = "healthy" THEN {TRUE} ELSE {TRUE, FALSE}

Init == SessionInit /\ peer = "healthy" /\ RecvIdle

PeerChange ==
  /\ \E m \in PeerModes \ {peer} : peer' = m
  /\ UNCHANGED <<sessVars, thrVars, ghostVars, recvVars, diagVars>>

(* ------------------------------ the lock ------------------------------ *)
\* threading.Lock is not reentrant and knows no owner: acquire blocks while
\* the lock is taken, whoever took it.
LockAlwaysFree(s) == TRUE

LockFree(s) == lock[s] = NoThread

Acquire(t, s) == LockFree(s) /\ lock' = [lock EXCEPT ![s] = t]

Release(s) == lock' = [lock EXCEPT ![s] = NoThread]

(* -------------------------- _start_heartbeat -------------------------- *)
\* A thread object that is not running and that no session refers to.
FreeHB(h) == h \in HBs /\ pc[h] = "dead"
             /\ \A s \in Sessions : heartbeat_thread[s] # h

StartsThread(s) == HeartbeatInterval > 0 /\ ~IsAlive(heartbeat_thread[s])

(* ------------------------------ connect ------------------------------- *)
\* Lowest descriptor of the session that is neither open nor still named by
\* a thread that wrote to it.
FreshSock(s) ==
  CHOOSE i \in 1..MaxSock :
    /\ <<s, i>> \notin sockOpen
    /\ \A t \in Threads : ~(cur[t] = s /\ xsock[t] = i)
    /\ \A j \in 1..(i - 1) :
         <<s, j>> \in sockOpen \/ \E t \in Threads : cur[t] = s /\ xsock[t] = j

HasFreshSock(s) ==
  \E i \in 1..MaxSock :
    <<s, i>> \notin sockOpen /\ \A t \in Threads : ~(cur[t] = s /\ xsock[t] = i)

ConnectCall(t) ==
  /\ t \in Callers /\ pc[t] = "idle" /\ held[t] # 0
  /\ pc' = [pc EXCEPT ![t] = "c_acquire"]
  /\ op' = [op EXCEPT ![t] = "connect"]
  /\ cur' = [cur EXCEPT ![t] = held[t]]
  /\ UNCHANGED <<sessVars, held, result, xsock, nwrites, ghostVars, peer,
                 recvVars, diagVars>>

\* Where connect() returns to with value ok: its caller is the public call,
\* get_unreal_connection (lines 286-288) or send_command (lines 165-167).
ConnectReturnPc(t, ok) ==
  CASE op[t] = "connect" -> "idle"
    [] op[t] = "guc" -> IF ok THEN "g_ret" ELSE "g_fail"
    [] op[t] = "send" -> IF ok THEN "sc_write" ELSE "sc_ret"

ConnectReturn(t, ok) ==
  /\ result' = [result EXCEPT ![t] =
                  IF op[t] = "send" /\ ~ok THEN RNone ELSE RNothing]

OpAfterConnect(t) == IF op[t] = "connect" THEN "none" ELSE op[t]

CurAfterConnect(t) == IF op[t] = "send" THEN cur[t] ELSE 0

\* connect(), whoever called it: "with self.lock:" waits for the lock; lines
\* 57-88 run under it and the with block releases it again.
Connect(t) ==
  LET s == cur[t] IN
  /\ pc[t] = "c_acquire"
  /\ LockFree(s)
  /\ UNCHANGED lock
  /\ \/ \* line 58: already connected
        /\ connected[s] /\ socket[s] # 0
        /\ ConnectReturn(t, TRUE)
        /\ pc' = [pc EXCEPT ![t] = ConnectReturnPc(t, TRUE)]
        /\ op' = [op EXCEPT ![t] = OpAfterConnect(t)]
        /\ cur' = [cur EXCEPT ![t] = CurAfterConnect(t)]
        /\ UNCHANGED <<connected, socket, sockOpen, heartbeat_thread,
                       heartbeat_stop>>
     \/ \* lines 62-77: the peer accepts
        /\ ~(connected[s] /\ socket[s] # 0)
        /\ TRUE \in ConnectOutcomes(peer)
        /\ HasFreshSock(s)
        /\ socket' = [socket EXCEPT ![s] = FreshSock(s)]
        /\ sockOpen' = sockOpen \cup {<<s, FreshSock(s)>>}
        /\ connected' = [connected EXCEPT ![s] = TRUE]
        /\ ConnectReturn(t, TRUE)
        /\ IF StartsThread(s)
             THEN \E h \in HBs :
                    /\ FreeHB(h)
                    /\ heartbeat_stop' = [heartbeat_stop EXCEPT ![s] = FALSE]
                    /\ heartbeat_thread' = [heartbeat_thread EXCEPT ![s] = h]
                    /\ pc' = [pc EXCEPT ![t] = ConnectReturnPc(t, TRUE),
                                        ![h] = "hb_wait"]
                    /\ cur' = [cur EXCEPT ![t] = CurAfterConnect(t), ![h] = s]
                    /\ op' = [op EXCEPT ![t] = OpAfterConnect(t), ![h] = "send"]
             ELSE /\ pc' = [pc EXCEPT ![t] = ConnectReturnPc(t, TRUE)]
                  /\ op' = [op EXCEPT ![t] = OpAfterConnect(t)]
                  /\ cur' = [cur EXCEPT ![t] = CurAfterConnect(t)]
                  /\ UNCHANGED <<heartbeat_thread, heartbeat_stop>>
     \/ \* lines 79-88: socket.connect raises
        /\ ~(connected[s] /\ socket[s] # 0)
        /\ FALSE \in ConnectOutcomes(peer)
        /\ connected' = [connected EXCEPT ![s] = FALSE]
        /\ socket' = [socket EXCEPT ![s] = 0]
        /\ ConnectReturn(t, FALSE)
        /\ pc' = [pc EXCEPT ![t] = ConnectReturnPc(t, FALSE)]
        /\ op' = [op EXCEPT ![t] = OpAfterConnect(t)]
        /\ cur' = [cur EXCEPT ![t] = CurAfterConnect(t)]
        /\ UNCHANGED <<sockOpen, heartbeat_thread, heartbeat_stop>>
  /\ UNCHANGED <<unreal_connection, nsess, held, xsock, nwrites, ghostVars,
                 peer, recvVars, diagVars>>

(* ----------------------------- disconnect ----------------------------- *)
DisconnectCall(t) ==
  /\ t \in Callers /\ pc[t] = "idle" /\ held[t] # 0
  /\ pc' = [pc EXCEPT ![t] = "d_acquire"]
  /\ op' = [op EXCEPT ![t] = "disconnect"]
  /\ cur' = [cur EXCEPT ![t] = held[t]]
  /\ UNCHANGED <<sessVars, held, result, xsock, nwrites, ghostVars, peer,
                 recvVars, diagVars>>

\* "with self.lock:" and _stop_heartbeat, lines 259-260 (or 262 when no
\* thread is alive).
StopHeartbeat(t) ==
  LET s == cur[t] IN
  /\ pc[t] = "d_acquire"
  /\ Acquire(t, s)
  /\ IF IsAlive(heartbeat_thread[s])
       THEN /\ heartbeat_stop' = [heartbeat_stop EXCEPT ![s] = TRUE]
            /\ pc' = [pc EXCEPT ![t] = "d_join"]
            /\ UNCHANGED heartbeat_thread
       ELSE /\ heartbeat_thread' = [heartbeat_thread EXCEPT ![s] = NoThread]
            /\ pc' = [pc EXCEPT ![t] = "d_close"]
            /\ UNCHANGED heartbeat_stop
  /\ UNCHANGED <<unreal_connection, nsess, connected, socket, sockOpen,
                 op, cur, held, result, xsock, nwrites, ghostVars, peer,
                 recvVars, diagVars>>

\* A thread that cannot finish within the 2 s of the join: it waits for a
\* lock (the disconnecting thread holds this session's lock).
BlockedOnLock(h) == pc[h] = "sc_acquire"

\* join(timeout=2) returns: the thread has ended, or the timeout elapsed
\* with the thread blocked.  Then line 262.
JoinHeartbeat(t) ==
  LET s == cur[t] IN
  /\ pc[t] = "d_join"
  /\ \/ ~IsAlive(heartbeat_thread[s])
     \/ BlockedOnLock(heartbeat_thread[s])
  /\ heartbeat_thread' = [heartbeat_thread EXCEPT ![s] = NoThread]
  /\ pc' = [pc EXCEPT ![t] = "d_close"]
  /\ UNCHANGED <<unreal_connection, nsess, connected, socket, sockOpen, lock,
                 heartbeat_stop, op, cur, held, result, xsock, nwrites,
                 ghostVars, peer, recvVars, diagVars>>

CloseSocketLeavesSocket(s) ==
  /\ connected' = [connected EXCEPT ![s] = FALSE]
  /\ UNCHANGED <<socket, sockOpen>>

CloseSocketStaysConnected(s) ==
  /\ sockOpen' = sockOpen \ {<<s, socket[s]>>}
  /\ socket' = [socket EXCEPT ![s] = 0]
  /\ UNCHANGED connected

\* socket.close() and the two assignments that follow it.
CloseSocket(s) ==
  /\ sockOpen' = sockOpen \ {<<s, socket[s]>>}
  /\ socket' = [socket EXCEPT ![s] = 0]
  /\ connected' = [connected EXCEPT ![s] = FALSE]

\* Lines 94-100 and the release of the lock.
DisconnectClose(t) ==
  /\ pc[t] = "d_close"
  /\ CloseSocket(cur[t])
  /\ Release(cur[t])
  /\ pc' = [pc EXCEPT ![t] = "idle"]
  /\ op' = [op EXCEPT ![t] = "none"]
  /\ cur' = [cur EXCEPT ![t] = 0]
  /\ UNCHANGED <<unreal_connection, nsess, heartbeat_thread, heartbeat_stop,
                 held, result, xsock, nwrites, ghostVars, peer, recvVars, diagVars>>

(* ---------------------------- send_command ---------------------------- *)
SendCall(t) ==
  /\ t \in Callers /\ pc[t] = "idle" /\ held[t] # 0
  /\ pc' = [pc EXCEPT ![t] = "sc_acquire"]
  /\ op' = [op EXCEPT ![t] = "send"]
  /\ cur' = [cur EXCEPT ![t] = held[t]]
  /\ UNCHANGED <<sessVars, held, result, xsock, nwrites, ghostVars, peer,
                 recvVars, diagVars>>

\* Lines 163-165: take the lock; when not connected call self.connect(),
\* which starts with "with self.lock:" again.
SendAcquire(t) ==
  /\ pc[t] = "sc_acquire"
  /\ Acquire(t, cur[t])
  /\ pc' = [pc EXCEPT ![t] = IF connected[cur[t]] THEN "sc_write"
                                                  ELSE "c_acquire"]
  /\ UNCHANGED <<unreal_connection, nsess, connected, socket, sockOpen,
                 heartbeat_thread, heartbeat_stop, op, cur, held, result,
                 xsock, nwrites, ghostVars, peer, recvVars, diagVars>>

ResetOnErrorKeepsSocket(s) ==
  /\ connected' = [connected EXCEPT ![s] = FALSE]
  /\ UNCHANGED <<socket, sockOpen>>

\* Lines 217-234: the except block (tracking left aside).
ResetOnError(s) ==
  /\ connected' = [connected EXCEPT ![s] = FALSE]
  /\ sockOpen' = sockOpen \ {<<s, socket[s]>>}
  /\ socket' = [socket EXCEPT ![s] = 0]

Fault(t, text) ==
  /\ ResetOnError(cur[t])
  /\ result' = [result EXCEPT ![t] = RResponse(ErrorResponse(text))]
  /\ pc' = [pc EXCEPT ![t] = "sc_fault"]

\* Line 179: self.socket.sendall(...)
SendWrite(t) ==
  LET s == cur[t] IN
  /\ pc[t] = "sc_write"
  /\ nwrites' = [nwrites EXCEPT ![t] = nwrites[t] + 1]
  /\ xsock' = [xsock EXCEPT ![t] = socket[s]]
  /\ \/ /\ socket[s] # 0 /\ <<s, socket[s]>> \in sockOpen
        /\ TRUE \in WriteOutcomes(peer)
        /\ pc' = [pc EXCEPT ![t] = "sc_read"]
        /\ UNCHANGED <<connected, socket, sockOpen, result>>
     \/ /\ \/ socket[s] = 0
           \/ <<s, socket[s]>> \notin sockOpen
           \/ FALSE \in WriteOutcomes(peer)
        /\ Fault(t, IF socket[s] = 0 THEN ErrAttr ELSE ErrIO)
  /\ UNCHANGED <<unreal_connection, nsess, lock, heartbeat_thread,
                 heartbeat_stop, op, cur, held, ghostVars, peer, recvVars, diagVars>>

\* Line 182: what receive_full_response hands back on each script.
HealthyOutcomes == {receive_full_response(script) : script \in HealthyScripts}

BrokenOutcomes == {receive_full_response(script) : script \in BrokenScripts}

OutcomesOf(mode) ==
  IF mode = "healthy" THEN HealthyOutcomes ELSE BrokenOutcomes

\* The outcomes of the read on the socket it is given: a socket that was
\* closed or dropped under the reader only fails.
ReadOutcomes(s) ==
  IF socket[s] # 0 /\ <<s, socket[s]>> \in sockOpen
    THEN OutcomesOf(peer) ELSE BrokenOutcomes

DropsSession(s) ==
  /\ connected' = [connected EXCEPT ![s] = FALSE]
  /\ sockOpen' = sockOpen \ {<<s, socket[s]>>}
  /\ socket' = [socket EXCEPT ![s] = 0]

\* Lines 184-215 assign neither self.connected nor self.socket.
KeepsSession(s) == UNCHANGED <<connected, socket, sockOpen>>

\* Lines 182-215: read the response and normalise it.
SendRead(t) ==
  /\ pc[t] = "sc_read"
  /\ \E out \in ReadOutcomes(cur[t]) :
       \/ /\ ReadFaults(out)
          /\ Fault(t, FaultText(out))
       \/ /\ ~ReadFaults(out)
          /\ result' = [result EXCEPT ![t] =
                          RResponse(NormalizeResponse(out.msg.d))]
          /\ pc' = [pc EXCEPT ![t] = "sc_ret"]
          /\ KeepsSession(cur[t])
  /\ UNCHANGED <<unreal_connection, nsess, lock, heartbeat_thread,
                 heartbeat_stop, op, cur, held, xsock, nwrites, ghostVars,
                 peer, recvVars, diagVars>>

\* The return statement and the release at the end of the with block.  In
\* the heartbeat loop the returned value is only logged (lines 248-250).
SendReturn(t) ==
  /\ pc[t] \in {"sc_ret", "sc_fault"}
  /\ Release(cur[t])
  /\ pc' = [pc EXCEPT ![t] = HomePc(t)]
  /\ result' = [result EXCEPT ![t] = RNothing]
  /\ xsock' = [xsock EXCEPT ![t] = 0]
  /\ nwrites' = [nwrites EXCEPT ![t] = 0]
  /\ op' = [op EXCEPT ![t] = IF t \in Callers THEN "none" ELSE op[t]]
  /\ cur' = [cur EXCEPT ![t] = IF t \in Callers THEN 0 ELSE cur[t]]
  /\ UNCHANGED <<unreal_connection, nsess, connected, socket, sockOpen,
                 heartbeat_thread, heartbeat_stop, held, ghostVars, peer,
                 recvVars, diagVars>>

(* --------------------------- heartbeat loop --------------------------- *)
\* Line 246: heartbeat_stop.wait(interval) times out with the event clear.
HeartbeatTick(h) ==
  /\ h \in HBs /\ pc[h] = "hb_wait"
  /\ ~heartbeat_stop[cur[h]]
  /\ pc' = [pc EXCEPT ![h] = "sc_acquire"]
  /\ UNCHANGED <<sessVars, op, cur, held, result, xsock, nwrites,
                 ghostVars, peer, recvVars, diagVars>>

\* Line 246: the event is set, the loop and the thread end.
HeartbeatExit(h) ==
  /\ h \in HBs /\ pc[h] = "hb_wait"
  /\ heartbeat_stop[cur[h]]
  /\ pc' = [pc EXCEPT ![h] = "dead"]
  /\ op' = [op EXCEPT ![h] = "none"]
  /\ cur' = [cur EXCEPT ![h] = 0]
  /\ UNCHANGED <<sessVars, held, result, xsock, nwrites, ghostVars, peer,
                 recvVars, diagVars>>

(* ----------------------- get_unreal_connection ------------------------ *)
\* A caller enters the function; line 284: if _unreal_connection is None
GucCall(t) ==
  /\ t \in Callers /\ pc[t] = "idle"
  /\ pc' = [pc EXCEPT ![t] = IF unreal_connection = 0 THEN "g_new" ELSE "g_ret"]
  /\ op' = [op EXCEPT ![t] = "guc"]
  /\ seen' = [seen EXCEPT ![t] = firstReturned]
  /\ UNCHANGED <<sessVars, cur, held, result, xsock, nwrites, firstReturned,
                 peer, recvVars, diagVars>>

\* Line 285: _unreal_connection = UnrealConnection()
GucNew(t) ==
  /\ pc[t] = "g_new"
  /\ nsess < MaxSessions
  /\ nsess' = nsess + 1
  /\ unreal_connection' = nsess + 1
  /\ pc' = [pc EXCEPT ![t] = "g_call"]
  /\ UNCHANGED <<connected, socket, sockOpen, lock, heartbeat_thread,
                 heartbeat_stop, op, cur, held, result, xsock, nwrites,
                 ghostVars, peer, recvVars, diagVars>>

\* Line 286: _unreal_connection.connect() on what the global holds now; on
\* None the AttributeError is caught at line 294 and None is returned.
GucConnect(t) ==
  /\ pc[t] = "g_call"
  /\ IF unreal_connection = 0
       THEN /\ pc' = [pc EXCEPT ![t] = "idle"]
            /\ op' = [op EXCEPT ![t] = "none"]
            /\ held' = [held EXCEPT ![t] = 0]
            /\ seen' = [seen EXCEPT ![t] = 0]
            /\ UNCHANGED cur
       ELSE /\ pc' = [pc EXCEPT ![t] = "c_acquire"]
            /\ cur' = [cur EXCEPT ![t] = unreal_connection]
            /\ UNCHANGED <<held, op, seen>>
  /\ UNCHANGED <<sessVars, result, xsock, nwrites, firstReturned, peer,
                 recvVars, diagVars>>

\* Lines 286-288: connect() returned False: _unreal_connection = None
GucDiscard(t) ==
  /\ pc[t] = "g_fail"
  /\ unreal_connection' = 0
  /\ pc' = [pc EXCEPT ![t] = "g_retf"]
  /\ UNCHANGED <<nsess, connected, socket, sockOpen, lock, heartbeat_thread,
                 heartbeat_stop, op, cur, held, result, xsock, nwrites,
                 ghostVars, peer, recvVars, diagVars>>

\* Line 293: return _unreal_connection (at g_retf: after line 288)
GucReturn(t) ==
  /\ pc[t] \in {"g_ret", "g_retf"}
  /\ pc' = [pc EXCEPT ![t] = "idle"]
  /\ op' = [op EXCEPT ![t] = "none"]
  /\ held' = [held EXCEPT ![t] = unreal_connection]
  /\ firstReturned' = IF firstReturned = 0 THEN unreal_connection
                                            ELSE firstReturned
  /\ seen' = [seen EXCEPT ![t] = 0]
  /\ UNCHANGED <<sessVars, cur, result, xsock, nwrites, peer, recvVars, diagVars>>

(* --------------------------- specifications --------------------------- *)
\* The steps a thread takes by itself once it is inside a call.
Step(t) ==
  \/ Connect(t)
  \/ StopHeartbeat(t) \/ JoinHeartbeat(t) \/ DisconnectClose(t)
  \/ SendAcquire(t) \/ SendWrite(t) \/ SendRead(t) \/ SendReturn(t)
  \/ HeartbeatTick(t) \/ HeartbeatExit(t)
  \/ GucNew(t) \/ GucConnect(t) \/ GucDiscard(t) \/ GucReturn(t)

\* A caller starts a call.
Call(t) == GucCall(t) \/ ConnectCall(t) \/ DisconnectCall(t) \/ SendCall(t)

Next == (\E t \in Threads : Step(t) \/ Call(t)) \/ PeerChange

Spec == Init /\ [][Next]_vars

\* The same program with a single caller thread, under the scheduler's
\* guarantee: every thread that can run is eventually run.  The caller need
\* not call and the peer need not change.
FairThreads == {"c1"} \cup HBs

NextFair == (\E t \in FairThreads : Step(t) \/ Call(t)) \/ PeerChange

FairSpec == Init /\ [][NextFair]_vars /\ \A t \in FairThreads : WF_vars(Step(t))

(* ============================== claims ================================ *)
\* A thread is inside an exchange: its command is written, the response not
\* yet read to the end.
InExchange(t) == pc[t] = "sc_read"

\* C1: single-flight exclusivity.  On one session at most one thread (caller
\* or heartbeat) is inside an exchange at a time, and while it is, the
\* session still holds the very socket the command was written to, open: no
\* connect or disconnect has replaced or closed it.
C1_SingleFlight ==
  /\ \A s \in Sessions :
       Cardinality({t \in Threads : InExchange(t) /\ cur[t] = s}) <= 1
  /\ \A t \in Threads :
       InExchange(t) =>
         /\ xsock[t] # 0
         /\ socket[cur[t]] = xsock[t]
         /\ <<cur[t], xsock[t]>> \in sockOpen

\* A thread is inside an exchange while a second caller and the heartbeat
\* of the same session both wait for the lock.
C1_Witness ==
  \E t \in Threads, u \in Callers, h \in HBs :
    /\ t # u /\ t # h
    /\ InExchange(t) /\ cur[u] = cur[t] /\ cur[h] = cur[t]
    /\ pc[u] \in {"sc_acquire", "d_acquire", "c_acquire"}
    /\ pc[h] = "sc_acquire"

FaultTexts == {ErrClosed, ErrTimeout, ErrDecode, ErrAttr, ErrIO}

\* C3: transport fault handling.  When send_command is about to return after
\* its write or its read failed, the session is Disconnected, its socket is
\* closed and null, the value returned is the canonical error response, and
\* the command was written once only.
C3_TransportFault ==
  \A t \in Threads :
    pc[t] = "sc_fault" =>
      /\ ~connected[cur[t]]
      /\ socket[cur[t]] = 0
      /\ \A i \in 1..MaxSock : <<cur[t], i>> \notin sockOpen
      /\ \E e \in FaultTexts : result[t] = RResponse(ErrorResponse(e))
      /\ nwrites[t] = 1

\* A read on an open socket has failed and the call is about to return.
C3_Witness ==
  \E t \in Callers :
    pc[t] = "sc_fault" /\ xsock[t] # 0
    /\ result[t] = RResponse(ErrorResponse(ErrTimeout))

\* A session that is up: open socket and a running heartbeat loop.
Up(s) ==
  /\ socket[s] # 0 /\ <<s, socket[s]>> \in sockOpen
  /\ \E h \in HBs : pc[h] # "dead" /\ cur[h] = s

\* C9: the process-wide handle owns exactly one Session.  At most one
\* session with an open socket and a heartbeat loop exists, and every caller
\* that got a session from get_unreal_connection got the same one.
C9_OneSession ==
  /\ Cardinality({s \in Sessions : Up(s)}) <= 1
  /\ \A t \in Callers : held[t] # 0 => held[t] = firstReturned

\* C10: get_unreal_connection is a lazy singleton.  A call whose own connect
\* failed returns None and leaves the handle empty; a call that began after
\* a Session had been returned returns that Session and constructs no other.
C10_LazySingleton ==
  [][\A t \in Callers :
       /\ (pc[t] = "g_retf" /\ pc'[t] = "idle") =>
            (held'[t] = 0 /\ unreal_connection' = 0)
       /\ (pc[t] \in {"g_ret", "g_retf"} /\ pc'[t] = "idle" /\ seen[t] # 0) =>
            held'[t] = seen[t]
       /\ (pc[t] = "idle" /\ pc'[t] = "g_new") => firstReturned = 0]_vars

\* send_command found the session Disconnected and is calling connect().
Reconnecting(t) == op[t] = "send" /\ pc[t] = "c_acquire"

\* The value is a response of exactly the shape {status: "error", error: text}.
IsCanonicalError(r) ==
  /\ r.kind = "response"
  /\ DOMAIN r.d = {"status", "error"}
  /\ r.d["status"] = "error"

\* send_command is about to return.
Returns(t) == pc[t] \in {"sc_ret", "sc_fault"}

\* C2: reconnect after failure.  Once a failed send_command has left a
\* session Disconnected, a later send_command on it that meets a healthy
\* peer reconnects and returns the peer's response, the session Connected.
C2_ReconnectAfterFailure ==
  \A t \in FairThreads, u \in FairThreads :
    [](pc[u] = "sc_fault" =>
         []((Reconnecting(t) /\ cur[t] = cur[u] /\ peer = "healthy") =>
              <>(\/ peer # "healthy"
                 \/ /\ pc[t] = "sc_ret" /\ result[t].kind = "response"
                    /\ connected[cur[t]])))

\* C4: disconnected peer.  A send_command on a Disconnected session whose
\* peer refuses the connection returns the canonical error response, and the
\* session is not connected then.
C4_DisconnectedPeer ==
  \A t \in FairThreads :
    []((Reconnecting(t) /\ peer = "down") =>
         <>(\/ peer # "down"
            \/ /\ Returns(t)
               /\ IsCanonicalError(result[t])
               /\ ~connected[cur[t]]))

(* ------------------ claims about the receive path --------------------- *)
\* A frame of the newline-delimited protocol: a real response on one line.
Frames == RealLines \ {LinePretty}

\* The message the peer sent as its real response.
SentMessage == Returned(JsonLoads(Utf8Decode(rline).text).msg)

\* C5: heartbeat transparency.  For a stream of zero or more newline-ended
\* heartbeat frames followed by one newline-ended real response, however the
\* stream is cut into reads, whatever the receive path returns is exactly
\* that response, returned only when the whole stream has been read.
C5_HeartbeatTransparency ==
  (rline \in Frames /\ rterm /\ rout.kind # "none") =>
    (rout = SentMessage /\ rstream = <<>>)

\* C6: a heartbeat message is never surfaced.  No message returned by the
\* receive path, on any of its return paths, and no response send_command
\* makes of it, carries the type marker "heartbeat".
C6_NoHeartbeatSurfaced ==
  /\ rout.kind = "msg" => ~IsHeartbeat(rout.msg)
  /\ rresp.kind = "response" => DictGet(rresp.d, "type", PyNone) # "heartbeat"

\* C7: partial-frame tolerance.  When the bytes of one newline-ended message
\* arrive split at any offset across two reads, nothing is returned after the
\* first read and the complete message is returned after the second.
C7_PartialFrameTolerance ==
  (rhb = 0 /\ rline \in Frames /\ rterm) =>
    /\ (rn = 1 /\ rstream # <<>>) => rout.kind = "none"
    /\ (rn = 2 /\ rstream = <<>>) => rout = SentMessage

\* The same reply in the other error shape: status "error" for success false.
OtherShape(line) ==
  [i \in 1..Len(line) |-> IF line[i] = "e" THEN "f"
                          ELSE IF line[i] = "f" THEN "e" ELSE line[i]]

\* What send_command returns for a reply line received whole.
ResponseTo(line) == ResponseFor(Returned(JsonLoads(line).msg))

\* C8: error shape convergence.  A reply {status: "error", ...} and a reply
\* {success: false, ...} with the same error and message fields both come
\* back with status "error" and the same error text; the second shape comes
\* back as exactly {status, error}; the first always carries an error field.
C8_ErrorShapeConvergence ==
  (rline \in ShapeA \cup ShapeB /\ rterm /\ rresp.kind = "response"
     /\ rout = SentMessage) =>
    /\ DictGet(rresp.d, "status", PyNone) = "error"
    /\ "error" \in DOMAIN rresp.d
    /\ rresp.d["error"] = DictGet(ResponseTo(OtherShape(rline)), "error", PyNone)
    /\ rline \in ShapeB => rresp.d = ErrorResponse(rresp.d["error"])

(* --------------------- claims about the session ----------------------- *)
\* C11: session invariant.  Whenever no thread holds the lock of a session,
\* its socket is non-null if and only if it is connected.
C11_SocketIffConnected ==
  \A s \in Sessions : LockFree(s) => (socket[s] # 0 <=> connected[s])

\* A session that was connected has been torn down (by disconnect or by a
\* failed send_command) and its lock is free again.
C11_Witness ==
  \E s \in Sessions :
    /\ s <= nsess /\ LockFree(s)
    /\ socket[s] = 0 /\ ~connected[s]
    /\ \E t \in Threads : cur[t] = s /\ pc[t] \in {"hb_wait", "sc_acquire"}

\* The heartbeat loops alive on a session, whether or not the session still
\* refers to their thread.
LoopsOn(s) == {h \in HBs : IsAlive(h) /\ cur[h] = s}

\* C12: at most one heartbeat loop is alive per session at any time.
C12_OneHeartbeatLoop ==
  \A s \in Sessions : Cardinality(LoopsOn(s)) <= 1

\* C13: shutdown ordering of disconnect().  When disconnect() is about to
\* close the socket, after the signal and the join, the heartbeat loop of
\* the session has exited.
C13_ShutdownOrdering ==
  \A t \in Callers : pc[t] = "d_close" => LoopsOn(cur[t]) = {}

\* C17: teardown on I/O failure is complete.  When a caller's send_command
\* has torn the session down after an I/O failure, every heartbeat loop of
\* the session has ended or has at least been signalled to stop.
C17_TeardownStopsHeartbeat ==
  \A t \in Callers :
    pc[t] = "sc_fault" => (LoopsOn(cur[t]) = {} \/ heartbeat_stop[cur[t]])

\* The value is a response with status "error" that carries an error text.
IsErrorResponse(r) ==
  /\ r.kind = "response"
  /\ DictGet(r.d, "status", PyNone) = "error"
  /\ "error" \in DOMAIN r.d

\* C19: a peer-reported failure does not disconnect.  When the read of
\* send_command ends with a reply in a peer error shape, the call has the
\* normalised error to return and the session is still connected, on the
\* socket the command was written to, still open, with a heartbeat loop alive.
C19_PeerErrorKeepsSession ==
  [][\A t \in Threads :
       (pc[t] = "sc_read" /\ pc'[t] = "sc_ret"
          /\ DictGet(result'[t].d, "status", PyNone) = "error") =>
         /\ IsErrorResponse(result'[t])
         /\ connected'[cur[t]]
         /\ socket'[cur[t]] = socket[cur[t]] /\ socket'[cur[t]] = xsock[t]
         /\ <<cur[t], xsock[t]>> \in sockOpen'
         /\ heartbeat_thread' = heartbeat_thread
         /\ \E h \in HBs : pc'[h] # "dead" /\ cur'[h] = cur[t]]_vars

\* A caller is about to return the peer's error, the session connected.
C19_Witness ==
  \E t \in Callers :
    /\ pc[t] = "sc_ret" /\ IsErrorResponse(result[t])
    /\ result[t].d["error"] = "M"
    /\ connected[cur[t]]

\* What disconnect() leaves behind.
Disconnected(s) ==
  ~connected[s] /\ socket[s] = 0 /\ heartbeat_thread[s] = NoThread

\* The fields of one session, with the state of its descriptors.
SessionFields(s) ==
  <<connected[s], socket[s], heartbeat_thread[s], heartbeat_stop[s],
    {x \in sockOpen : x[1] = s}>>

\* C20: disconnect() is idempotent.  Whatever the state it is called in, it
\* ends with connected false, the socket null and the thread handle cleared;
\* on a session already in that state no step of it changes any field.
C20_DisconnectIdempotent ==
  [][\A t \in Callers, s \in Sessions :
       cur[t] = s =>
         /\ (pc[t] = "d_close" /\ pc'[t] = "idle") =>
              (~connected'[s] /\ socket'[s] = 0
                 /\ heartbeat_thread'[s] = NoThread)
         /\ (pc[t] \in {"d_acquire", "d_join", "d_close"} /\ pc'[t] # pc[t]
               /\ Disconnected(s)) =>
              SessionFields(s)' = SessionFields(s)]_vars

\* A disconnect() is about to finish on a session that is already
\* disconnected, its handle cleared by an earlier disconnect().
C20_Witness ==
  \E t \in Callers :
    /\ pc[t] = "d_close" /\ Disconnected(cur[t])
    /\ \E h \in HBs : cur[h] = cur[t] \/ heartbeat_stop[cur[t]]

(* ------------- the receive path with a peer that never stops ---------- *)
\* Before the read timeout expires the peer sends one more heartbeat frame.
PeerSendsHeartbeat ==
  /\ rout.kind = "none"
  /\ rstream = <<>>
  /\ rstream' = LineHB \o <<NL>>
  /\ UNCHANGED <<sessVars, thrVars, ghostVars, diagVars, peer, rbuf, rout, rn, rhb,
                 rline, rterm, rresp>>

\* The reply begins with one complete frame: a heartbeat or the response.
InitEndless == InitRecv /\ rhb = 0 /\ rterm /\ rline \in {LineHB, LineOK}

NextEndless == NextRecv \/ PeerSendsHeartbeat

\* recv returns when bytes are there, the timeout (or the end of the stream)
\* comes when the peer stays silent, and send_command goes on once the read
\* has ended.  Nothing makes the peer stop sending.
FairRecv ==
  /\ InitEndless /\ [][NextEndless]_vars
  /\ WF_vars(RecvChunk) /\ WF_vars(RecvEOF \/ RecvTimeout)
  /\ WF_vars(RecvReturn)

\* C18: the response decode is bounded by the read timeout.  Whatever the
\* peer sends, the receive loop ends and send_command has a value to return.
C18_ReceiveEnds == <>(rout.kind # "none" /\ rresp.kind # "nothing")

(* ============ send_command and status(), statement by statement ======= *)
\* One session, connected through get_unreal_connection, its heartbeat loop
\* waiting; caller c1 sends tracked commands, caller c2 asks for status().
Sender == "c1"
Reader == "c2"
Pinger == "h1"
TheSession == 1

InitTrack ==
  /\ unreal_connection = TheSession /\ nsess = TheSession
  /\ connected = [s \in Sessions |-> s = TheSession]
  /\ socket = [s \in Sessions |-> IF s = TheSession THEN 1 ELSE 0]
  /\ sockOpen = {<<TheSession, 1>>}
  /\ lock = [s \in Sessions |-> NoThread]
  /\ heartbeat_thread = [s \in Sessions |->
                           IF s = TheSession THEN Pinger ELSE NoThread]
  /\ heartbeat_stop = [s \in Sessions |-> FALSE]
  /\ pc = [t \in Threads |-> IF t \in Callers THEN "idle"
                             ELSE IF t = Pinger THEN "hb_wait" ELSE "dead"]
  /\ op = [t \in Threads |-> IF t = Pinger THEN "send" ELSE "none"]
  /\ cur = [t \in Threads |-> IF t = Pinger THEN TheSession ELSE 0]
  /\ held = [t \in Callers |-> TheSession]
  /\ result = [t \in Threads |-> RNothing]
  /\ xsock = [t \in Threads |-> 0]
  /\ nwrites = [t \in Threads |-> 0]
  /\ firstReturned = TheSession
  /\ seen = [t \in Callers |-> 0]
  /\ peer = "healthy"
  /\ RecvIdle
  /\ last_command = 0
  /\ last_command_result = NoResult
  /\ last_command_error = NoError
  /\ last_heartbeat = PyNone
  /\ ncmd = 0
  /\ snap = NoSnap

TracksAlways(t) == TRUE

\* The track argument: True by default, False in the heartbeat's ping
\* (line 248).
Tracks(t) == t \in Callers

\* The command a call sends: a caller's n-th command, or the ping.
CommandOf(t) == IF t \in Callers THEN ncmd ELSE MaxCommands + 1

\* The decoded message as receive_full_response returned it.
RRaw(m) == [kind |-> IF m.isdict THEN "raw" ELSE "rawother", d |-> m.d]

\* time.time()
Now == "now"

trackFields == <<last_command, last_command_result, last_command_error>>

\* A caller calls send_command(command, params) with its next command.
TrackedCall(t) ==
  /\ t \in Callers /\ pc[t] = "idle" /\ held[t] # 0
  /\ ncmd < MaxCommands
  /\ ncmd' = ncmd + 1
  /\ pc' = [pc EXCEPT ![t] = "sc_acquire"]
  /\ op' = [op EXCEPT ![t] = "send"]
  /\ cur' = [cur EXCEPT ![t] = held[t]]
  /\ UNCHANGED <<sessVars, held, result, xsock, nwrites, ghostVars, peer,
                 recvVars, trackFields, last_heartbeat, snap>>

\* Line 179: sendall; when it raises, control goes to line 217 with str(e).
TrackedWrite(t) ==
  LET s == cur[t] IN
  /\ pc[t] = "sc_write"
  /\ nwrites' = [nwrites EXCEPT ![t] = nwrites[t] + 1]
  /\ xsock' = [xsock EXCEPT ![t] = socket[s]]
  /\ \/ /\ socket[s] # 0 /\ <<s, socket[s]>> \in sockOpen
        /\ TRUE \in WriteOutcomes(peer)
        /\ pc' = [pc EXCEPT ![t] = "sc_read"]
        /\ UNCHANGED result
     \/ /\ \/ socket[s] = 0
           \/ <<s, socket[s]>> \notin sockOpen
           \/ FALSE \in WriteOutcomes(peer)
        /\ result' = [result EXCEPT ![t] = RResponse(ErrorResponse(
                          IF socket[s] = 0 THEN ErrAttr ELSE ErrIO))]
        /\ pc' = [pc EXCEPT ![t] = "tr_220"]
  /\ UNCHANGED <<sessVars, op, cur, held, ghostVars, peer, recvVars,
                 diagVars>>

\* Line 182: the read; line 185: if track.
TrackedRead(t) ==
  /\ pc[t] = "sc_read"
  /\ \E out \in ReadOutcomes(cur[t]) :
       \/ /\ out.kind = "exc"
          /\ result' = [result EXCEPT ![t] = RResponse(ErrorResponse(out.err))]
          /\ pc' = [pc EXCEPT ![t] = "tr_220"]
       \/ /\ out.kind # "exc"
          /\ result' = [result EXCEPT ![t] = RRaw(out.msg)]
          /\ pc' = [pc EXCEPT ![t] = IF Tracks(t) THEN "tr_186" ELSE "tr_195"]
  /\ UNCHANGED <<sessVars, op, cur, held, xsock, nwrites, ghostVars, peer,
                 recvVars, diagVars>>

\* Lines 186-187: self.last_command = command (and its time)
Track186(t) ==
  /\ pc[t] = "tr_186"
  /\ last_command' = CommandOf(t)
  /\ pc' = [pc EXCEPT ![t] = "tr_188"]
  /\ UNCHANGED <<sessVars, op, cur, held, result, xsock, nwrites, ghostVars,
                 peer, recvVars, last_command_result, last_command_error,
                 last_heartbeat, ncmd, snap>>

\* Line 188: self.last_command_result = response
Track188(t) ==
  /\ pc[t] = "tr_188"
  /\ last_command_result' = [of |-> CommandOf(t), val |-> result[t]]
  /\ pc' = [pc EXCEPT ![t] = "tr_189"]
  /\ UNCHANGED <<sessVars, op, cur, held, result, xsock, nwrites, ghostVars,
                 peer, recvVars, last_command, last_command_error,
                 last_heartbeat, ncmd, snap>>

\* Line 189: self.last_command_error = None
Track189(t) ==
  /\ pc[t] = "tr_189"
  /\ last_command_error' = [of |-> CommandOf(t), val |-> PyNone]
  /\ pc' = [pc EXCEPT ![t] = "tr_195"]
  /\ UNCHANGED <<sessVars, op, cur, held, result, xsock, nwrites, ghostVars,
                 peer, recvVars, last_command, last_command_result,
                 last_heartbeat, ncmd, snap>>

IsStatusError(d) == DictGet(d, "status", PyNone) = "error"

IsSuccessFalse(d) ==
  ~IsStatusError(d) /\ DictGet(d, "success", PyNone) = "false"

\* Lines 195-215.  response.get on a value that is no dict raises (to line
\* 217); for the first error shape the dict that last_command_result refers
\* to is completed in place (line 200); line 202 or 208 records the error.
Normalize195(t) ==
  LET r == result[t] IN
  /\ pc[t] = "tr_195"
  /\ IF r.kind = "rawother"
       THEN /\ result' = [result EXCEPT ![t] =
                            RResponse(ErrorResponse(ErrAttr))]
            /\ pc' = [pc EXCEPT ![t] = "tr_220"]
            /\ UNCHANGED trackFields
       ELSE /\ result' = [result EXCEPT ![t] =
                            RResponse(NormalizeResponse(r.d))]
            /\ pc' = [pc EXCEPT ![t] = "sc_ret"]
            /\ IF Tracks(t) /\ (IsStatusError(r.d) \/ IsSuccessFalse(r.d))
                 THEN /\ last_command_error' =
                           [of |-> CommandOf(t), val |-> ErrorMessage(r.d)]
                      /\ last_command_result' =
                           IF IsStatusError(r.d)
                             THEN [of |-> CommandOf(t),
                                   val |-> [r EXCEPT !.d = NormalizeResponse(r.d)]]
                             ELSE last_command_result
                      /\ UNCHANGED last_command
                 ELSE UNCHANGED trackFields
  /\ UNCHANGED <<sessVars, op, cur, held, xsock, nwrites, ghostVars, peer,
                 recvVars, last_heartbeat, ncmd, snap>>

\* Line 219: if track; lines 220-221: self.last_command = command
Except219(t) ==
  /\ pc[t] = "tr_220"
  /\ IF Tracks(t)
       THEN /\ last_command' = CommandOf(t)
            /\ pc' = [pc EXCEPT ![t] = "tr_222"]
       ELSE /\ UNCHANGED last_command
            /\ pc' = [pc EXCEPT ![t] = "tr_225"]
  /\ UNCHANGED <<sessVars, op, cur, held, result, xsock, nwrites, ghostVars,
                 peer, recvVars, last_command_result, last_command_error,
                 last_heartbeat, ncmd, snap>>

\* Line 222: self.last_command_result = None
Except222(t) ==
  /\ pc[t] = "tr_222"
  /\ last_command_result' = [of |-> CommandOf(t), val |-> RNone]
  /\ pc' = [pc EXCEPT ![t] = "tr_223"]
  /\ UNCHANGED <<sessVars, op, cur, held, result, xsock, nwrites, ghostVars,
                 peer, recvVars, last_command, last_command_error,
                 last_heartbeat, ncmd, snap>>

\* Line 223: self.last_command_error = str(e)
Except223(t) ==
  /\ pc[t] = "tr_223"
  /\ last_command_error' = [of |-> CommandOf(t), val |-> result[t].d["error"]]
  /\ pc' = [pc EXCEPT ![t] = "tr_225"]
  /\ UNCHANGED <<sessVars, op, cur, held, result, xsock, nwrites, ghostVars,
                 peer, recvVars, last_command, last_command_result,
                 last_heartbeat, ncmd, snap>>

\* Lines 225-234: reset the connection state, return the error dict.
Except225(t) ==
  /\ pc[t] = "tr_225"
  /\ ResetOnError(cur[t])
  /\ pc' = [pc EXCEPT ![t] = "sc_fault"]
  /\ UNCHANGED <<unreal_connection, nsess, lock, heartbeat_thread,
                 heartbeat_stop, op, cur, held, result, xsock, nwrites,
                 ghostVars, peer, recvVars, diagVars>>

\* The with block ends.  A caller is back in its own code; the heartbeat
\* loop is at line 249 with the value send_command returned.
TrackedReturn(t) ==
  /\ pc[t] \in {"sc_ret", "sc_fault"}
  /\ Release(cur[t])
  /\ pc' = [pc EXCEPT ![t] = IF t \in Callers THEN "idle" ELSE "hb_rec"]
  /\ result' = [result EXCEPT ![t] = IF t \in Callers THEN RNothing
                                                      ELSE result[t]]
  /\ xsock' = [xsock EXCEPT ![t] = 0]
  /\ nwrites' = [nwrites EXCEPT ![t] = 0]
  /\ op' = [op EXCEPT ![t] = IF t \in Callers THEN "none" ELSE op[t]]
  /\ cur' = [cur EXCEPT ![t] = IF t \in Callers THEN 0 ELSE cur[t]]
  /\ UNCHANGED <<unreal_connection, nsess, connected, socket, sockOpen,
                 heartbeat_thread, heartbeat_stop, held, ghostVars, peer,
                 recvVars, diagVars>>

\* Lines 248-253.  send_command hands every failure back as a value, so the
\* call at line 248 has returned and line 249 runs; the except branch is
\* taken only for a call that raised.
HeartbeatRecord(h) ==
  /\ h \in HBs /\ pc[h] = "hb_rec"
  /\ last_heartbeat' = IF result[h].kind = "raised" THEN PyNone ELSE Now
  /\ result' = [result EXCEPT ![h] = RNothing]
  /\ pc' = [pc EXCEPT ![h] = "hb_wait"]
  /\ UNCHANGED <<sessVars, op, cur, held, xsock, nwrites, ghostVars, peer,
                 recvVars, trackFields, ncmd, snap>>

(* ------------------------------ status() ------------------------------ *)
\* Lines 264-275: the dict display reads the fields one after the other;
\* no lock is taken.
StatusCall(t) ==
  /\ t \in Callers /\ pc[t] = "idle" /\ held[t] # 0
  /\ pc' = [pc EXCEPT ![t] = "st_267"]
  /\ op' = [op EXCEPT ![t] = "status"]
  /\ cur' = [cur EXCEPT ![t] = held[t]]
  /\ snap' = NoSnap
  /\ UNCHANGED <<sessVars, held, result, xsock, nwrites, ghostVars, peer,
                 recvVars, trackFields, last_heartbeat, ncmd>>

StatusStep(t, from, to, field, value) ==
  /\ pc[t] = from
  /\ snap' = [snap EXCEPT ![field] = value]
  /\ pc' = [pc EXCEPT ![t] = to]
  /\ UNCHANGED <<sessVars, op, cur, held, result, xsock, nwrites, ghostVars,
                 peer, recvVars, trackFields, last_heartbeat, ncmd>>

Status267(t) ==
  StatusStep(t, "st_267", "st_269", "connected", connected[cur[t]])

Status269(t) ==
  StatusStep(t, "st_269", "st_271", "last_heartbeat", last_heartbeat)

Status271(t) ==
  StatusStep(t, "st_271", "st_273", "last_command", last_command)

Status273(t) ==
  StatusStep(t, "st_273", "st_274", "last_command_error", last_command_error)

Status274(t) ==
  StatusStep(t, "st_274", "st_ret", "last_command_result", last_command_result)

\* The caller has the dict; it is dropped before the next call.
StatusReturn(t) ==
  /\ pc[t] = "st_ret"
  /\ pc' = [pc EXCEPT ![t] = "idle"]
  /\ op' = [op EXCEPT ![t] = "none"]
  /\ cur' = [cur EXCEPT ![t] = 0]
  /\ snap' = NoSnap
  /\ UNCHANGED <<sessVars, held, result, xsock, nwrites, ghostVars, peer,
                 recvVars, trackFields, last_heartbeat, ncmd>>

TrackedStep(t) ==
  \/ SendAcquire(t)
  \/ TrackedWrite(t)
  \/ TrackedRead(t)
  \/ Track186(t)
  \/ Track188(t)
  \/ Track189(t)
  \/ Normalize195(t)
  \/ Except219(t)
  \/ Except222(t)
  \/ Except223(t)
  \/ Except225(t)
  \/ TrackedReturn(t)

NextTrack ==
  \/ TrackedCall(Sender)
  \/ ConnectCall(Sender)
  \/ Connect(Sender)
  \/ HeartbeatTick(Pinger)
  \/ HeartbeatRecord(Pinger)
  \/ \E t \in {Sender, Pinger} : TrackedStep(t)
  \/ StatusCall(Reader)
  \/ Status267(Reader)
  \/ Status269(Reader)
  \/ Status271(Reader)
  \/ Status273(Reader)
  \/ Status274(Reader)
  \/ StatusReturn(Reader)
  \/ PeerChange

SpecTrack == InitTrack /\ [][NextTrack]_vars

\* C14: status() returns a coherent snapshot.  In the dict status() hands
\* back, last_command, last_command_error and last_command_result describe
\* one and the same tracked command, also while a send_command is running.
C14_StatusCoherent ==
  pc[Reader] = "st_ret" =>
    /\ snap.last_command_error.of = snap.last_command
    /\ snap.last_command_result.of = snap.last_command

\* The texts of the faults the except block of send_command returns.
TransportFaultTexts == {ErrClosed, ErrTimeout, ErrDecode, ErrAttr, ErrIO}

\* The ping came back as the error dict of a transport fault.
PingFailed(h) ==
  IsErrorResponse(result[h]) /\ result[h].d["error"] \in TransportFaultTexts

\* C15: heartbeat outcome recording.  When the loop records the outcome of a
\* ping, last_heartbeat becomes the current time if the ping succeeded and
\* null if the ping ended in a transport fault; the loop goes on waiting.
C15_HeartbeatRecording ==
  [][\A h \in HBs :
       (pc[h] = "hb_rec" /\ pc'[h] # "hb_rec") =>
         /\ pc'[h] = "hb_wait"
         /\ PingFailed(h) => last_heartbeat' = PyNone
         /\ ~IsErrorResponse(result[h]) => last_heartbeat' = Now]_vars

\* C16: heartbeat pings are untracked.  No step of a heartbeat thread, on
\* whatever path through send_command, changes last_command,
\* last_command_result or last_command_error.
C16_PingsUntracked ==
  [][(\E h \in HBs : pc'[h] # pc[h]) => UNCHANGED trackFields]_vars

\* A ping ended in a transport fault after a tracked command had succeeded,
\* and the record of that command is as the command left it.
C16_Witness ==
  /\ pc[Pinger] = "hb_rec" /\ PingFailed(Pinger)
  /\ last_command = 1
  /\ last_command_result.of = 1 /\ last_command_result.val.kind = "raw"
  /\ last_command_error = [of |-> 1, val |-> PyNone]

\* The thread stands at a "with self.lock:" (lines 56, 91, 163) and has not
\* got the lock yet.
WaitsForLock(t) == pc[t] \in {"c_acquire", "d_acquire", "sc_acquire"}

\* C21: no self-deadlock on the Session lock.  No thread, caller or
\* heartbeat, stands at an acquire of the lock of a session while it holds
\* that lock itself.
C21_NoSelfDeadlock ==
  \A t \in Threads : WaitsForLock(t) => lock[cur[t]] # t

====
